---- MODULE Spec2Model ----
(***************************************************************************)
(* Model of src/html/beauty_landing.cpp: an SFML program that fills a      *)
(* 600 x 400 image with a vertical linear gradient, loads a font, builds a *)
(* title, a description and a button, and redraws them in an event loop    *)
(* until the window is closed.                                             *)
(*                                                                         *)
(* The gradient loop (lines 8-20) is modelled with its literals (600, 400, *)
(* the two colours) held in the variables width, height, startColor and    *)
(* endColor.  Spec fixes them to the literals of the source; GenSpec draws *)
(* them from bounded sets, to examine the loop as the generator            *)
(* generate(width, height, startColor, endColor).                          *)
(*                                                                         *)
(* float is IEEE-754 binary32 with round-to-nearest-even after every       *)
(* operation (g++ on x86-64 or AArch64 with the compile line of line 1,    *)
(* which enables neither contraction nor extended precision).              *)
(***************************************************************************)
EXTENDS Integers, Sequences, FiniteSets, TLC

(***************************************************************************)
(* Literals of the source.                                                 *)
(***************************************************************************)
ImageWidth == 600
ImageHeight == 400

\* sf::Color(r, g, b): the alpha channel defaults to 255.
Color(r, g, b) == [r |-> r, g |-> g, b |-> b, a |-> 255]

\* The colour sf::Image::create fills a new image with (its default argument).
Black == Color(0, 0, 0)

TopColor == Color(24, 18, 43)
BottomColor == Color(255, 56, 100)

(***************************************************************************)
(* binary32 arithmetic.  A float is [sign, m, e] with value sign * m * 2^e *)
(* and 2^23 <= m < 2^24, or m = 0 for zero.  All intermediate integers     *)
(* stay below 2^31.                                                        *)
(***************************************************************************)
Pow2(n) == 2 ^ n

FloatZero == [sign |-> 1, m |-> 0, e |-> 0]

RECURSIVE BitLen(_)
\* The number of binary digits of n >= 0.
BitLen(n) == IF n = 0 THEN 0 ELSE 1 + BitLen(n \div 2)

\* A 25-bit carry out of rounding renormalises to 2^23 with the exponent raised.
Normalize(sign, m, e) ==
    IF m = Pow2(24) THEN [sign |-> sign, m |-> Pow2(23), e |-> e + 1]
                    ELSE [sign |-> sign, m |-> m, e |-> e]

\* n / 2^k rounded to the nearest integer, ties to even; sticky says that
\* nonzero digits lie below n.
RoundShift(n, k, sticky) ==
    IF k = 0 THEN n
    ELSE LET q == n \div Pow2(k)
             r == n % Pow2(k)
             half == Pow2(k - 1)
             up == r > half \/ (r = half /\ (sticky \/ q % 2 = 1))
         IN q + (IF up THEN 1 ELSE 0)

RECURSIVE Scale(_, _)
\* The least a >= 1 with num * 2^a >= den, for 0 < num <= den.
Scale(num, den) == IF 2 * num >= den THEN 1 ELSE 1 + Scale(2 * num, den)

\* float(num) / float(den) for 0 <= num <= den < 2^18: both conversions are
\* exact, the quotient is rounded once.
FloatDiv(num, den) ==
    IF num = 0 THEN FloatZero
    ELSE LET a == Scale(num, den)
             r == num * Pow2(a)
             q1 == (r * Pow2(12)) \div den
             r1 == (r * Pow2(12)) % den
             q2 == (r1 * Pow2(11)) \div den
             r2 == (r1 * Pow2(11)) % den
             m == q1 * Pow2(11) + q2
             up == 2 * r2 > den \/ (2 * r2 = den /\ m % 2 = 1)
         IN Normalize(1, m + (IF up THEN 1 ELSE 0), -23 - a)

Abs(d) == IF d < 0 THEN -d ELSE d

\* f * float(d) for an int d with |d| <= 255: the conversion is exact, the
\* 32-bit product H * 2^12 + L is rounded to 24 bits.
FloatMulInt(f, d) ==
    IF f.m = 0 \/ d = 0 THEN FloatZero
    ELSE LET A == (f.m \div Pow2(12)) * Abs(d)
             B == (f.m % Pow2(12)) * Abs(d)
             H == A + B \div Pow2(12)
             L == B % Pow2(12)
             k == BitLen(H) - 12
             q == H * Pow2(12 - k) + RoundShift(L, k, FALSE)
         IN Normalize(IF d < 0 THEN -f.sign ELSE f.sign, q, f.e + k)

\* A non-negative float result as fixed point: i + f / 2^30, where inexact
\* says that the value lies strictly between f and f + 1 (only below 2^-6).
Fixed(i, f, inexact) == [i |-> i, f |-> f, inexact |-> inexact]

\* The exact value of s + p as fixed point to 30 fraction bits, with the rest
\* of p in the sticky flag; s an int in 0 .. 255, p a float with |p| < 256,
\* and s + p >= 0.
ExactSum(s, p) ==
    IF p.m = 0 THEN Fixed(s, 0, FALSE)
    ELSE LET n == -p.e
             pi == IF n <= 30 THEN p.m \div Pow2(n) ELSE 0
             pf == IF n <= 30 THEN (p.m % Pow2(n)) * Pow2(30 - n)
                              ELSE p.m \div Pow2(n - 30)
             st == n > 30 /\ p.m % Pow2(n - 30) # 0
         IN IF p.sign = 1 THEN Fixed(s + pi, pf, st)
            ELSE IF pf = 0 /\ ~st THEN Fixed(s - pi, 0, FALSE)
            ELSE Fixed(s - pi - 1, Pow2(30) - pf - (IF st THEN 1 ELSE 0), st)

\* v rounded to 24 significant bits.
RoundFixed(v) ==
    LET bits == IF v.i > 0 THEN BitLen(v.i) + 30 ELSE BitLen(v.f)
        drop == bits - 24
    IN IF drop <= 0 THEN v
       ELSE LET q == RoundShift(v.f, drop, v.inexact)
            IN IF q * Pow2(drop) >= Pow2(30) THEN Fixed(v.i + 1, 0, FALSE)
               ELSE Fixed(v.i, q * Pow2(drop), FALSE)

\* float(s) + p, rounded once.
FloatAddInt(s, p) == RoundFixed(ExactSum(s, p))

(***************************************************************************)
(* The gradient computation of the inner loop body.                        *)
(***************************************************************************)
\* Mutant: the fraction counted from the bottom row, t = (h - 1 - y) / h.
InterpolationFractionReversed(row, h) == FloatDiv(h - 1 - row, h)

\* Mutant: the fraction taken one row ahead, t = (y + 1) / h.
InterpolationFractionOffByOne(row, h) == FloatDiv(row + 1, h)

\* float t = float(y) / 400.0f;
InterpolationFraction(row, h) == FloatDiv(row, h)

\* Mutant: start and end exchanged, e + t * (s - e).
LerpSwapped(s, e, t) == FloatAddInt(e, FloatMulInt(t, s - e))

\* Mutant: the start not subtracted, s + t * e.
LerpNoSubtract(s, e, t) == FloatAddInt(s, FloatMulInt(t, e))

\* Mutant: the start added instead of subtracted, s + t * (e + s).
LerpAddsStart(s, e, t) == FloatAddInt(s, FloatMulInt(t, e + s))

\* 24 + t * (255 - 24): the difference is an int, converted to float for the
\* product; the sum is a float.
Lerp(s, e, t) == FloatAddInt(s, FloatMulInt(t, e - s))

\* Mutant: the conversion rounds to the nearest integer, halves upward.
ToUint8Rounding(v) == (IF v.f >= Pow2(29) THEN v.i + 1 ELSE v.i) % 256

\* static_cast<sf::Uint8>(float): truncation toward zero.  A value of 256 or
\* more is outside the range of Uint8 and the conversion is then undefined;
\* the common outcome (the low 8 bits of the integer) is taken here, and
\* C7_ValueWithinEndpoints shows the case is never reached.
ToUint8(v) == IF v.i < 256 THEN v.i ELSE v.i % 256

\* sf::Color c(...) for row `row` of an image of height h running from
\* colour A at the top to colour B.
PixelColor(row, h, A, B) ==
    LET t == InterpolationFraction(row, h)
    IN Color(ToUint8(Lerp(A.r, B.r, t)),
             ToUint8(Lerp(A.g, B.g, t)),
             ToUint8(Lerp(A.b, B.b, t)))

\* Mutant: the fraction taken from the column, t = x / w.
RowPixelsHorizontal(row, w, h, A, B) ==
    [x \in 0 .. (w - 1) |-> PixelColor(x, w, A, B)]

\* The inner loop: for x in [0, w) setPixel(x, row, c), as the colour written
\* to each column.  c does not read x.
RowPixels(row, w, h, A, B) ==
    LET c == PixelColor(row, h, A, B)
    IN [x \in 0 .. (w - 1) |-> c]

(***************************************************************************)
(* sf::Image: its size and its pixels.  pixels[y] holds row y of the pixel *)
(* array run-length encoded, without loss: a sequence of runs [at, c], in  *)
(* increasing order of at and starting at column 0, where run k says that  *)
(* the columns from at up to the next run's at (or the row's end) have     *)
(* colour c, and adjacent runs differ in colour.  PixelAt reads the pixel  *)
(* that SFML stores at index (x + y * size.x) * 4.                         *)
(***************************************************************************)
\* The runs of a row of w > 0 pixels given as a function of the column.
Encode(f, w) ==
    LET starts == {x \in 0 .. (w - 1) : x = 0 \/ f[x] # f[x - 1]}
        start(k) == CHOOSE x \in starts : Cardinality({z \in starts : z < x}) = k - 1
    IN [k \in 1 .. Cardinality(starts) |-> [at |-> start(k), c |-> f[start(k)]]]

\* sf::Image::getPixel(x, yy).
PixelAt(img, x, yy) ==
    LET row == img.pixels[yy]
        k == CHOOSE j \in 1 .. Len(row) :
                 row[j].at <= x /\ (j = Len(row) \/ row[j + 1].at > x)
    IN row[k].c

EmptyImage == [size |-> <<0, 0>>, pixels |-> << >>]

\* Mutant: create keeps a dimension of 0 as given.
ImageCreateUnchecked(w, h) ==
    [size |-> <<w, h>>,
     pixels |-> [yy \in 0 .. (h - 1) |-> <<[at |-> 0, c |-> Black]>>]]

\* sf::Image::create(w, h): a w x h image filled with black, or the empty
\* image when either dimension is 0.  It reports no error.
ImageCreate(w, h) ==
    IF w > 0 /\ h > 0
    THEN [size |-> <<w, h>>,
          pixels |-> [yy \in 0 .. (h - 1) |-> <<[at |-> 0, c |-> Black]>>]]
    ELSE EmptyImage

(***************************************************************************)
(* The scene built once the font has loaded.                               *)
(***************************************************************************)
Drawables == {"title", "desc", "button", "btnText"}

Scene ==
    [title |-> [kind |-> "Text", string |-> "LookList", characterSize |-> 48,
                fill |-> Color(192, 192, 192), position |-> <<180, 40>>],
     desc |-> [kind |-> "Text", string |-> "Discover, book, and pay ...",
               characterSize |-> 20, fill |-> Color(255, 255, 255),
               position |-> <<60, 120>>],
     button |-> [kind |-> "RectangleShape", size |-> <<220, 56>>,
                 position |-> <<190, 250>>, fill |-> Color(255, 56, 100),
                 outlineThickness |-> 2, outlineColor |-> Color(201, 24, 74)],
     btnText |-> [kind |-> "Text", string |-> "Search Near Me",
                  characterSize |-> 24, fill |-> Color(255, 255, 255),
                  position |-> <<202, 260>>]]

\* The draw calls of one frame, in order.
DrawOrder == <<"bgSprite", "title", "desc", "button", "btnText">>

\* Some of the values of sf::Event::EventType.
EventTypes == {"Closed", "Resized", "LostFocus", "GainedFocus",
               "KeyPressed", "MouseMoved"}

\* Mutant: losing the focus closes the window too.
IsCloseOrLostFocus(type) == type \in {"Closed", "LostFocus"}

\* if (event.type == sf::Event::Closed)
IsCloseRequest(type) == type = "Closed"

\* Mutant: the failure is ignored and the scene is built.
AfterLoadFontIgnoresFailure(loaded) == "scene"

\* if (!font.loadFromFile(...)) return 1;  the place control goes to next.
AfterLoadFont(loaded) == IF loaded THEN "scene" ELSE "exit"

(***************************************************************************)
(* State.                                                                  *)
(***************************************************************************)
VARIABLES
    width, height,          \* the image's dimensions (600, 400 in the source)
    startColor, endColor,   \* the gradient's colours ((24,18,43), (255,56,100))
    pc,                     \* the statement main is at
    y,                      \* the outer loop's counter
    bgImage,                \* sf::Image bgImage
    bgTexture,              \* sf::Texture bgTexture: the image it was loaded from
    font,                   \* "unloaded", "loaded" or "failed"
    ui,                     \* the drawables constructed so far, with their settings
    windowOpen,             \* window.isOpen()
    event,                  \* sf::Event event: its type, "indeterminate" before a poll
    screen,                 \* what the last display() showed, in draw order
    exit                    \* << >> while main runs, <<code>> once it has returned

vars == <<width, height, startColor, endColor, pc, y, bgImage, bgTexture,
          font, ui, windowOpen, event, screen, exit>>

inputs == <<width, height, startColor, endColor>>
render == <<bgTexture, font, ui, windowOpen, event, screen, exit>>

\* The state after line 8: the window is open, the image is empty.
Start ==
    /\ pc = "create"
    /\ y = 0
    /\ bgImage = EmptyImage
    /\ bgTexture = EmptyImage
    /\ font = "unloaded"
    /\ ui = << >>
    /\ windowOpen = TRUE
    /\ event = "indeterminate"
    /\ screen = << >>
    /\ exit = << >>

Init ==
    /\ width = ImageWidth
    /\ height = ImageHeight
    /\ startColor = TopColor
    /\ endColor = BottomColor
    /\ Start

(***************************************************************************)
(* Lines 9-20: the gradient.                                               *)
(***************************************************************************)
\* bgImage.create(600, 400);
Create ==
    /\ pc = "create"
    /\ bgImage' = ImageCreate(width, height)
    /\ y' = 0
    /\ pc' = "gradient"
    /\ UNCHANGED <<inputs, render>>

\* One iteration of the outer loop, the whole inner loop included.
GradientRow ==
    /\ pc = "gradient"
    /\ y < height
    /\ bgImage' = IF width > 0
                  THEN [bgImage EXCEPT !.pixels[y] =
                            Encode(RowPixels(y, width, height, startColor, endColor),
                                   width)]
                  ELSE bgImage
    /\ y' = y + 1
    /\ UNCHANGED <<inputs, pc, render>>

\* The outer loop's exit.
GradientEnd ==
    /\ pc = "gradient"
    /\ y >= height
    /\ pc' = "texture"
    /\ UNCHANGED <<inputs, y, bgImage, render>>

(***************************************************************************)
(* Lines 21-48: texture, font, scene.                                      *)
(***************************************************************************)
\* bgTexture.loadFromImage(bgImage); sf::Sprite bgSprite(bgTexture);
LoadTexture ==
    /\ pc = "texture"
    /\ bgTexture' = bgImage
    /\ ui' = [n \in {"bgSprite"} |-> [kind |-> "Sprite", position |-> <<0, 0>>]]
    /\ pc' = "font"
    /\ UNCHANGED <<inputs, y, bgImage, font, windowOpen, event, screen, exit>>

\* if (!font.loadFromFile("Poppins-Bold.ttf")) return 1;
LoadFont ==
    /\ pc = "font"
    /\ \E loaded \in BOOLEAN :
          /\ font' = IF loaded THEN "loaded" ELSE "failed"
          /\ pc' = AfterLoadFont(loaded)
          /\ exit' = IF pc' = "exit" THEN <<1>> ELSE exit
    /\ UNCHANGED <<inputs, y, bgImage, bgTexture, ui, windowOpen, event, screen>>

\* Lines 32-48: the title, the description, the button and its label.
BuildScene ==
    /\ pc = "scene"
    /\ ui' = [n \in DOMAIN ui \cup Drawables |->
                 IF n \in Drawables THEN Scene[n] ELSE ui[n]]
    /\ pc' = "isOpen"
    /\ UNCHANGED <<inputs, y, bgImage, bgTexture, font, windowOpen, event,
                   screen, exit>>

(***************************************************************************)
(* Lines 50-64: the render loop.                                           *)
(***************************************************************************)
\* while (window.isOpen()) { sf::Event event; ...  } return 0;
TestOpen ==
    /\ pc = "isOpen"
    /\ IF windowOpen
       THEN /\ pc' = "pollEvent"
            /\ event' = "indeterminate"
            /\ exit' = exit
       ELSE /\ pc' = "exit"
            /\ exit' = <<0>>
            /\ event' = event
    /\ UNCHANGED <<inputs, y, bgImage, bgTexture, font, ui, windowOpen, screen>>

\* while (window.pollEvent(event)): an open window hands over the next
\* pending event, if any; a closed window has none.
PollEvent ==
    /\ pc = "pollEvent"
    /\ \/ /\ windowOpen
          /\ \E type \in EventTypes : event' = type
          /\ pc' = "handle"
       \/ /\ pc' = "frame"
          /\ event' = event
    /\ UNCHANGED <<inputs, y, bgImage, bgTexture, font, ui, windowOpen, screen,
                   exit>>

\* if (event.type == sf::Event::Closed) window.close();
HandleEvent ==
    /\ pc = "handle"
    /\ windowOpen' = IF IsCloseRequest(event) THEN FALSE ELSE windowOpen
    /\ pc' = "pollEvent"
    /\ UNCHANGED <<inputs, y, bgImage, bgTexture, font, ui, event, screen, exit>>

\* window.clear(); five window.draw(...); window.display();  On a closed
\* window each of these calls does nothing.
DrawFrame ==
    /\ pc = "frame"
    /\ screen' = IF windowOpen THEN DrawOrder ELSE screen
    /\ pc' = "isOpen"
    /\ UNCHANGED <<inputs, y, bgImage, bgTexture, font, ui, windowOpen, event,
                   exit>>

Next ==
    \/ Create
    \/ GradientRow
    \/ GradientEnd
    \/ LoadTexture
    \/ LoadFont
    \/ BuildScene
    \/ TestOpen
    \/ PollEvent
    \/ HandleEvent
    \/ DrawFrame

\* The program.
Spec == Init /\ [][Next]_vars

\* A statement of the render loop.
LoopStep == TestOpen \/ PollEvent \/ HandleEvent \/ DrawFrame

\* The program, which does not stop inside the render loop while the loop has
\* a statement to execute.
FairSpec == Spec /\ WF_vars(LoopStep)

(***************************************************************************)
(* The gradient loop as a generator over bounded inputs.                   *)
(***************************************************************************)
MaxWidth == 3
MaxHeight == 8

Colors == {TopColor, BottomColor, Black, Color(255, 255, 255),
           Color(255, 18, 43), Color(25, 18, 43)}

GenInit ==
    /\ \/ /\ width \in 0 .. MaxWidth
          /\ height \in 0 .. MaxHeight
          /\ startColor \in Colors
          /\ endColor \in Colors
       \/ /\ width = ImageWidth
          /\ height = ImageHeight
          /\ startColor = TopColor
          /\ endColor = BottomColor
    /\ Start

GenNext ==
    \/ Create
    \/ GradientRow
    \/ GradientEnd

GenSpec == GenInit /\ [][GenNext]_vars

(***************************************************************************)
(* Properties.                                                             *)
(***************************************************************************)
\* The gradient loop has finished: the generator has returned its image.
Generated == pc = "texture"

ValidDimensions == width > 0 /\ height > 0

\* The inputs are the literals of the source.
ProgramInputs ==
    /\ width = ImageWidth
    /\ height = ImageHeight
    /\ startColor = TopColor
    /\ endColor = BottomColor

\* floor(s + row * (e - s) / h), in exact arithmetic.
ExactFloor(s, e, row, h) == (s * h + row * (e - s)) \div h

\* s + row * (e - s) / h rounded to the nearest integer, halves upward, in
\* exact arithmetic.
ExactRound(s, e, row, h) == (2 * (s * h + row * (e - s)) + h) \div (2 * h)

\* The image is width x height and every pixel is the gradient's colour for its row.
GradientComplete ==
    /\ y = height
    /\ bgImage.size = <<width, height>>
    /\ \A yy \in 0 .. (height - 1) :
          LET c == PixelColor(yy, height, startColor, endColor)
          IN \A x \in 0 .. (width - 1) : PixelAt(bgImage, x, yy) = c

C2_Scenario ==
    /\ Generated
    /\ width = 2
    /\ height = 2
    /\ startColor = Color(24, 18, 43)
    /\ endColor = Color(255, 56, 100)

C3_RowZeroIsStart ==
    (pc \in {"gradient", "texture"} /\ y >= 1 /\ width > 0) =>
        /\ \A x \in 0 .. (width - 1) : PixelAt(bgImage, x, 0) = startColor
        /\ ProgramInputs =>
              \A x \in 0 .. 599 : PixelAt(bgImage, x, 0) = Color(24, 18, 43)

C3_Witness ==
    /\ ProgramInputs
    /\ Generated
    /\ PixelAt(bgImage, 599, 0) = Color(24, 18, 43)
    /\ PixelAt(bgImage, 599, 399) # Color(24, 18, 43)

\* C4: once generation has finished, the pixels of a row all have one colour.
C4_RowsUniform ==
    (Generated /\ ValidDimensions) =>
        \A yy \in 0 .. (height - 1) :
            Cardinality({PixelAt(bgImage, x, yy) : x \in 0 .. (width - 1)}) = 1

C4_Witness ==
    /\ Generated
    /\ width >= 2
    /\ height >= 2
    /\ PixelAt(bgImage, 0, 0) = PixelAt(bgImage, width - 1, 0)
    /\ PixelAt(bgImage, 0, 0) # PixelAt(bgImage, 0, height - 1)

\* C5: with the start colour equal to the end colour, every pixel of the
\* generated image is that colour.
C5_Degenerate ==
    (Generated /\ ValidDimensions /\ startColor = endColor) =>
        \A yy \in 0 .. (height - 1) : \A x \in 0 .. (width - 1) :
            PixelAt(bgImage, x, yy) = startColor

C5_Witness ==
    /\ Generated
    /\ width >= 2
    /\ height >= 3
    /\ startColor = endColor
    /\ startColor # Black
    /\ PixelAt(bgImage, width - 1, height - 1) = startColor

\* C6: with start.r < end.r and equal green and blue, the red channel never
\* decreases from one written row to the next, and green and blue are those
\* of the start colour in every written row.
C6_RedMonotone ==
    (/\ pc \in {"gradient", "texture"}
     /\ width > 0
     /\ startColor.r < endColor.r
     /\ startColor.g = endColor.g
     /\ startColor.b = endColor.b) =>
        \A yy \in 0 .. (y - 1) : \A x \in 0 .. (width - 1) :
            /\ PixelAt(bgImage, x, yy).g = startColor.g
            /\ PixelAt(bgImage, x, yy).b = startColor.b
            /\ yy + 1 < y => PixelAt(bgImage, x, yy + 1).r >= PixelAt(bgImage, x, yy).r

C6_Witness ==
    /\ Generated
    /\ width > 0
    /\ height >= 3
    /\ startColor.r < endColor.r
    /\ startColor.g = endColor.g
    /\ startColor.b = endColor.b
    /\ PixelAt(bgImage, 0, height - 1).r > PixelAt(bgImage, 0, 0).r

Min(a, b) == IF a <= b THEN a ELSE b
Max(a, b) == IF a >= b THEN a ELSE b

\* lo <= v <= hi for a float result v and ints lo, hi.
Within(v, lo, hi) ==
    /\ v.i >= lo
    /\ v.i < hi \/ (v.i = hi /\ v.f = 0 /\ ~v.inexact)

\* The three float values the iteration for row y converts to Uint8, each
\* with its start and end channel.
ChannelValues ==
    LET t == InterpolationFraction(y, height)
    IN {[s |-> startColor.r, e |-> endColor.r, v |-> Lerp(startColor.r, endColor.r, t)],
        [s |-> startColor.g, e |-> endColor.g, v |-> Lerp(startColor.g, endColor.g, t)],
        [s |-> startColor.b, e |-> endColor.b, v |-> Lerp(startColor.b, endColor.b, t)]}

\* C7: in every iteration the value converted to Uint8 lies between the start
\* and the end channel, so it is in [0, 255] and the conversion returns its
\* integer part unchanged.
C7_ValueWithinEndpoints ==
    (pc = "gradient" /\ y < height) =>
        \A c \in ChannelValues :
            /\ Within(c.v, Min(c.s, c.e), Max(c.s, c.e))
            /\ c.v.i \in 0 .. 255
            /\ ToUint8(c.v) = c.v.i

C7_Witness ==
    /\ pc = "gradient"
    /\ y >= 1
    /\ y = height - 1
    /\ startColor.r > endColor.r
    /\ \E c \in ChannelValues : c.s # c.e /\ c.v.i < Max(c.s, c.e) /\ c.v.f > 0

LoopStatements == {"isOpen", "pollEvent", "handle", "frame"}

\* C8: with the window open the program stays in the render loop; the window
\* is closed only by handling a Closed event and any other event leaves it
\* open; 0 is returned only from the loop test, with the window closed; and
\* once a Closed event has been polled the program returns 0.
C8_LeavesLoopOnlyWhenClosed ==
    /\ [](exit = <<0>> => ~windowOpen)
    /\ [][(pc \in LoopStatements /\ windowOpen) => pc' \in LoopStatements]_vars
    /\ [][(windowOpen /\ ~windowOpen') => (pc = "handle" /\ event = "Closed")]_vars
    /\ [][(pc = "handle" /\ event # "Closed") => windowOpen' = windowOpen]_vars
    /\ [][(exit = << >> /\ exit' = <<0>>) => (pc = "isOpen" /\ ~windowOpen)]_vars
    /\ (pc = "handle" /\ event = "Closed") ~> (exit = <<0>>)

C8_Witness ==
    /\ exit = <<0>>
    /\ ~windowOpen
    /\ font = "loaded"
    /\ screen = DrawOrder

\* C9: a failed font load returns 1 in the same step; 1 is returned only from
\* the font load, only when it failed, with the gradient complete and neither
\* text nor button created, no event polled and no frame displayed.
C9_FontFailureExitsOne ==
    /\ [](font = "failed" => (exit = <<1>> /\ pc = "exit"))
    /\ [](exit = <<1>> =>
            /\ font = "failed"
            /\ GradientComplete
            /\ bgTexture = bgImage
            /\ DOMAIN ui \cap Drawables = {}
            /\ event = "indeterminate"
            /\ screen = << >>)
    /\ [][(exit # <<1>> /\ exit' = <<1>>) => pc = "font"]_vars

C9_Witness ==
    /\ exit = <<1>>
    /\ font = "failed"
    /\ y = ImageHeight
    /\ DOMAIN ui = {"bgSprite"}

\* The colour of row yy of the program's image in exact arithmetic.
TruncatedColor(yy) ==
    Color(24 + (231 * yy) \div 400, 18 + (38 * yy) \div 400, 43 + (57 * yy) \div 400)

\* Row yy is written: each pixel is the truncated colour, which is below the
\* end colour in every channel.
RowBelowEnd(yy) ==
    LET c == TruncatedColor(yy)
    IN /\ c.r <= 254
       /\ c.g <= 55
       /\ c.b <= 99
       /\ c # Color(255, 56, 100)
       /\ \A x \in 0 .. 599 : PixelAt(bgImage, x, yy) = c

\* C10: in the program every written row yy has red 24 + floor(231 yy / 400),
\* green 18 + floor(38 yy / 400) and blue 43 + floor(57 yy / 400), so the image
\* never holds the end colour, and its bottom row is (254,55,99).
C10_EndColorNeverReached ==
    /\ (pc = "gradient" /\ y >= 1) => RowBelowEnd(y - 1)
    /\ pc \notin {"create", "gradient"} =>
          /\ \A yy \in 0 .. 399 : RowBelowEnd(yy)
          /\ \A x \in 0 .. 599 : PixelAt(bgImage, x, 399) = Color(254, 55, 99)

C10_Witness ==
    /\ pc = "isOpen"
    /\ screen = DrawOrder
    /\ PixelAt(bgImage, 599, 399) = Color(254, 55, 99)
    /\ PixelAt(bgImage, 0, 0) = Color(24, 18, 43)
====
